---- MODULE Spec2Model ----
(***************************************************************************)
(* Model of db_cleanup.py: DatabaseCleaner and main().                     *)
(*                                                                         *)
(* The database file holds three relations: aircraft_data (source, input), *)
(* aircraft_data_backup (snapshot) and aircraft (target).  A run of main() *)
(* connects, executes the seven steps of cleanup_database in order, leaves *)
(* the with-block (__exit__) and returns.  The file outlives a run, so the *)
(* model lets main() be run again on the same file.  The owner of the file *)
(* may rewrite aircraft_data whenever the write lock is free: between two  *)
(* runs and between two statements of a run.                               *)
(*                                                                         *)
(* A text value is a record [null, s]: SQL NULL, or a sequence of          *)
(* one-character strings.  Timestamps (created_at, updated_at) are not     *)
(* modelled.                                                               *)
(***************************************************************************)
EXTENDS Integers, Sequences, FiniteSets, TLC

\* ---------------------------------------------------------------- bounds
MaxRows == 2       \* rows of aircraft_data when the file is first seen
MaxEnvRows == 1    \* rows of aircraft_data after a rewrite by the file's owner
MaxRuns == 2       \* runs of main() on the same file

\* ----------------------------------------------------------- text values
SP == " "
TAB == "\t"

NULL == [null |-> TRUE, s |-> <<>>]

T(s) == [null |-> FALSE, s |-> s]

RECURSIVE LTrimSpaces(_)
LTrimSpaces(s) ==
    IF s = <<>> THEN s
    ELSE IF Head(s) = SP THEN LTrimSpaces(Tail(s)) ELSE s

RECURSIVE RTrimSpaces(_)
RTrimSpaces(s) ==
    IF s = <<>> THEN s
    ELSE IF s[Len(s)] = SP THEN RTrimSpaces(SubSeq(s, 1, Len(s) - 1)) ELSE s

\* A faulty trim that strips the left end only.
TRIMLeftOnly(v) == IF v.null THEN NULL ELSE T(LTrimSpaces(v.s))

\* SQL TRIM(X): NULL for NULL, otherwise X without the spaces (0x20) at
\* both ends.  No other character is removed.
TRIM(v) == IF v.null THEN NULL ELSE T(RTrimSpaces(LTrimSpaces(v.s)))

\* ------------------------------------------------------------------ rows
\* Rows aircraft_data may hold.  Together they cover: spaces at either end
\* and inside a value, NULL and empty values, a manufacturer of spaces
\* only, a manufacturer of a tab and a space, a tab at either end of a
\* value, a NULL icao24, icao24 values that coincide once trimmed.
SrcRow(i, n, mf, mo, op, nm, ci, st, ta, tr) ==
    [icao24 |-> i, n_number |-> n, manufacturer |-> mf, model |-> mo,
     operator |-> op, name |-> nm, city |-> ci, state |-> st,
     type_aircraft |-> ta, type_registrant |-> tr]

P1 == SrcRow(T(<<SP, "A", "1", SP>>), T(<<"N", "1", SP>>), T(<<"C">>),
             T(<<SP, "1", SP, "7">>), T(<<"O", SP>>), T(<<SP, "M">>),
             T(<<"Y", SP, SP>>), T(<<SP, "S", SP>>),
             T(<<"F", SP, "w", SP>>), T(<<SP, "I">>))
P2 == SrcRow(T(<<"A", "1">>), NULL, T(<<SP, "B", SP>>), T(<<"2">>), NULL,
             NULL, T(<<>>), NULL, T(<<"R">>), T(<<"K">>))
P3 == SrcRow(NULL, T(<<"N", "3">>), T(<<TAB, SP>>), T(<<"6", TAB>>), NULL,
             NULL, NULL, NULL, T(<<TAB, "G">>), NULL)
P4 == SrcRow(T(<<"B", "2">>), NULL, T(<<SP, SP>>), T(<<"4">>), NULL, NULL,
             NULL, NULL, NULL, NULL)
P5 == SrcRow(T(<<"C", "3">>), NULL, NULL, T(<<"5">>), NULL, NULL, NULL,
             NULL, NULL, NULL)
P6 == SrcRow(T(<<"E", "5">>), NULL, T(<<>>), NULL, NULL, NULL, NULL, NULL,
             NULL, NULL)

RowPool == {P1, P2, P3, P4, P5, P6}

\* Rows a rewrite of aircraft_data by the file's owner draws from: a row
\* that qualifies and one with a manufacturer of spaces only.
EnvRowPool == {P1, P4}

SeqsUpTo(S, n) == UNION {[1..k -> S] : k \in 0..n}

\* ----------------------------------------------------------------- state
VARIABLES
    source,          \* rows of aircraft_data
    backupExists,    \* aircraft_data_backup exists
    backup,          \* rows of aircraft_data_backup
    aircraftExists,  \* aircraft exists
    aircraft,        \* rows of aircraft as the connection sees them
    triggerExists,   \* update_aircraft_timestamp exists
    indexes,         \* names of the indexes on aircraft
    inTxn,           \* the engine holds an uncommitted INSERT and its write lock
    conn,            \* self.conn: "none", "open" or "closed"
    closeCount,      \* calls of conn.close() in this run
    pc,              \* position of the run
    started,         \* steps entered in this run, in order (their first log line)
    error,           \* kind of the exception raised in this run, or "none"
    failedStep,      \* step that raised, or "none"
    raised,          \* main() re-raised to its caller
    count,           \* backup_existing_data: the row count it read (0 outside)
    runs,            \* runs of main() started on this file
    prevOk,          \* the previous run returned without an exception
    hadBackup,       \* aircraft_data_backup existed when this run connected
    fresh,           \* neither backup nor aircraft existed when this run connected
    interfered       \* aircraft_data was rewritten since this run connected

db == <<source, backupExists, backup, aircraftExists, aircraft,
        triggerExists, indexes, inTxn>>
run == <<conn, closeCount, pc, started, error, failedStep, raised, count>>
hist == <<runs, prevOk, hadBackup, fresh, interfered>>
vars == <<db, run, hist>>

\* The statements of the create_indexes script, in order: the name each
\* one creates.
IndexScript == <<"idx_aircraft_icao24", "idx_aircraft_manufacturer",
                 "idx_aircraft_model", "idx_aircraft_type",
                 "idx_aircraft_operator">>

IndexNames == {IndexScript[i] : i \in 1..Len(IndexScript)}

\* A step order with migrate and create exchanged.
StepOrderSwapped == <<"backup", "drop", "migrate", "create", "index",
                      "optimize", "verify">>

\* The calls of cleanup_database, in program order.
StepOrder == <<"backup", "drop", "create", "migrate", "index", "optimize",
               "verify">>

IndexOf(step) == CHOOSE i \in 1..Len(StepOrder) : StepOrder[i] = step

\* Where control goes when a step returns normally: the next call, or out
\* of the with-block after the last one.
After(step) ==
    IF IndexOf(step) = Len(StepOrder) THEN "exit"
    ELSE StepOrder[IndexOf(step) + 1]

Begin(step) == pc = step /\ started' = Append(started, step)

\* An exception in a step: cleanup_database logs it and re-raises, which
\* leaves the with-block.
Raise(step, kind) ==
    /\ pc' = "exit"
    /\ error' = kind
    /\ failedStep' = step

Proceed(step) ==
    /\ pc' = After(step)
    /\ UNCHANGED <<error, failedStep>>

\* ------------------------------------------------------------------ Init
Init ==
    /\ source \in SeqsUpTo(RowPool, MaxRows)
    /\ backupExists = FALSE
    /\ backup = <<>>
    /\ aircraftExists = FALSE
    /\ aircraft = <<>>
    /\ triggerExists = FALSE
    /\ indexes = {}
    /\ inTxn = FALSE
    /\ conn = "none"
    /\ closeCount = 0
    /\ pc = "idle"
    /\ started = <<>>
    /\ error = "none"
    /\ failedStep = "none"
    /\ raised = FALSE
    /\ count = 0
    /\ runs = 0
    /\ prevOk = FALSE
    /\ hadBackup = FALSE
    /\ fresh = TRUE
    /\ interfered = FALSE

\* --------------------------------------------------- main / __enter__
\* main() enters the with-block: __enter__ calls connect().  When
\* connect() raises, __enter__ raises, and the with statement does not
\* call __exit__; main() logs and re-raises.
Connect ==
    /\ pc = "idle"
    /\ runs < MaxRuns
    /\ runs' = runs + 1
    /\ hadBackup' = backupExists
    /\ fresh' = (~backupExists /\ ~aircraftExists)
    /\ interfered' = FALSE
    /\ UNCHANGED <<db, closeCount, started, count, prevOk>>
    /\ \/ \* sqlite3.connect raises: self.conn stays None
          /\ conn' = "none"
          /\ pc' = "returned"
          /\ error' = "io"
          /\ failedStep' = "connect"
          /\ raised' = TRUE
       \/ \* sqlite3.connect succeeds, the PRAGMA script raises
          /\ conn' = "open"
          /\ pc' = "returned"
          /\ error' = "io"
          /\ failedStep' = "connect"
          /\ raised' = TRUE
       \/ \* connection established
          /\ conn' = "open"
          /\ pc' = StepOrder[1]
          /\ UNCHANGED <<error, failedStep, raised>>

\* ---------------------------------------------------------------- steps
\* CREATE TABLE IF NOT EXISTS ... AS SELECT that replaces an existing table.
CreateTableOverwrite(exists, old, rows) == rows

\* CREATE TABLE IF NOT EXISTS aircraft_data_backup AS SELECT * FROM
\* aircraft_data: the rows of the backup afterwards.
CreateTableIfNotExistsAs(exists, old, rows) == IF exists THEN old ELSE rows

\* First statement of backup_existing_data: SELECT COUNT(*) FROM
\* aircraft_data.  With count = 0 the step is over; otherwise the read
\* lock is released before the second statement starts.
BackupExistingData ==
    /\ Begin("backup")
    /\ UNCHANGED <<db, conn, closeCount, raised, hist>>
    /\ \/ /\ Raise("backup", "io")
          /\ UNCHANGED count
       \/ IF Len(source) > 0
          THEN /\ count' = Len(source)
               /\ pc' = "backup_copy"
               /\ UNCHANGED <<error, failedStep>>
          ELSE /\ Proceed("backup")
               /\ UNCHANGED count

\* Second statement, run when count > 0: it copies the rows aircraft_data
\* holds now.  Creating the table needs the write lock; the no-op on an
\* existing backup does not.
BackupCopy ==
    /\ pc = "backup_copy"
    /\ count' = 0
    /\ UNCHANGED <<source, aircraftExists, aircraft, triggerExists, indexes,
                   inTxn, conn, closeCount, started, raised, hist>>
    /\ \/ /\ Raise("backup", "io")
          /\ UNCHANGED <<backupExists, backup>>
       \/ IF ~backupExists /\ inTxn
          THEN /\ Raise("backup", "locked")
               /\ UNCHANGED <<backupExists, backup>>
          ELSE /\ Proceed("backup")
               /\ backup' = CreateTableIfNotExistsAs(backupExists, backup,
                                                     source)
               /\ backupExists' = TRUE

\* A DROP that leaves the table in place.
DropTableKeep(exists) == exists

\* DROP TABLE IF EXISTS aircraft: whether the table exists afterwards.
DropTableIfExists(exists) == FALSE

\* A drop step that drops the backup relation as well.
DropAllTables ==
    /\ Begin("drop")
    /\ UNCHANGED <<source, inTxn, conn, closeCount, raised, count, hist>>
    /\ Proceed("drop")
    /\ aircraftExists' = FALSE
    /\ aircraft' = <<>>
    /\ triggerExists' = FALSE
    /\ indexes' = {}
    /\ backupExists' = FALSE
    /\ backup' = <<>>

\* Dropping a table drops its rows, its triggers and its indexes.
DropExistingTables ==
    /\ Begin("drop")
    /\ UNCHANGED <<source, backupExists, backup, inTxn, conn, closeCount,
                   raised, count, hist>>
    /\ \/ /\ Raise("drop", "io")
          /\ UNCHANGED <<aircraftExists, aircraft, triggerExists, indexes>>
       \/ \* the write lock is held by the failed INSERT of an earlier run
          /\ aircraftExists /\ inTxn
          /\ Raise("drop", "locked")
          /\ UNCHANGED <<aircraftExists, aircraft, triggerExists, indexes>>
       \/ /\ ~(aircraftExists /\ inTxn)
          /\ Proceed("drop")
          /\ aircraftExists' = DropTableIfExists(aircraftExists)
          /\ IF DropTableIfExists(aircraftExists)
             THEN UNCHANGED <<aircraft, triggerExists, indexes>>
             ELSE /\ aircraft' = <<>>
                  /\ triggerExists' = FALSE
                  /\ indexes' = {}

\* A script of two statements, each committed as it runs.  CREATE TABLE
\* aircraft (no IF NOT EXISTS) fails when the table exists; the script
\* stops at the first statement that fails, so a failure of CREATE TRIGGER
\* leaves the table without its trigger.
CreateNewTable ==
    /\ Begin("create")
    /\ UNCHANGED <<source, backupExists, backup, indexes, inTxn, conn,
                   closeCount, raised, count, hist>>
    /\ \/ \* CREATE TABLE fails in the engine
          /\ Raise("create", "io")
          /\ UNCHANGED <<aircraftExists, aircraft, triggerExists>>
       \/ \* CREATE TABLE succeeds, CREATE TRIGGER fails in the engine
          /\ ~aircraftExists /\ ~inTxn
          /\ Raise("create", "io")
          /\ aircraftExists' = TRUE
          /\ aircraft' = <<>>
          /\ UNCHANGED triggerExists
       \/ IF aircraftExists
          THEN /\ Raise("create", "exists")
               /\ UNCHANGED <<aircraftExists, aircraft, triggerExists>>
          ELSE IF inTxn
          THEN /\ Raise("create", "locked")
               /\ UNCHANGED <<aircraftExists, aircraft, triggerExists>>
          ELSE /\ Proceed("create")
               /\ aircraftExists' = TRUE
               /\ aircraft' = <<>>
               /\ triggerExists' = TRUE

\* WHERE clause that tests for NULL only.
QualifiesNotNullOnly(r) == ~r.manufacturer.null

\* WHERE manufacturer IS NOT NULL AND TRIM(manufacturer) != ''
Qualifies(r) ==
    /\ ~r.manufacturer.null
    /\ TRIM(r.manufacturer) # T(<<>>)

\* The SELECT list, in the column order of the INSERT; id is assigned on
\* insertion.
Project(r) ==
    [icao24 |-> TRIM(r.icao24),
     n_number |-> TRIM(r.n_number),
     manufacturer |-> TRIM(r.manufacturer),
     model |-> TRIM(r.model),
     operator |-> TRIM(r.operator),
     name |-> TRIM(r.name),
     city |-> TRIM(r.city),
     state |-> TRIM(r.state),
     aircraft_type |-> TRIM(r.type_aircraft),
     owner_type |-> TRIM(r.type_registrant)]

RECURSIVE SelectRows(_)
SelectRows(rows) ==
    IF rows = <<>> THEN <<>>
    ELSE IF Qualifies(Head(rows))
         THEN <<Project(Head(rows))>> \o SelectRows(Tail(rows))
         ELSE SelectRows(Tail(rows))

\* A column without the UNIQUE constraint.
NoUniqueConstraint(table, v) == FALSE

\* icao24 TEXT UNIQUE: a non-NULL value already in the table conflicts.
UniqueConflict(table, v) ==
    /\ ~v.null
    /\ \E i \in 1..Len(table) : table[i].icao24 = v

\* id INTEGER PRIMARY KEY AUTOINCREMENT on a table created empty.
WithId(r, table) ==
    [id |-> Len(table) + 1,
     icao24 |-> r.icao24, n_number |-> r.n_number,
     manufacturer |-> r.manufacturer, model |-> r.model,
     operator |-> r.operator, name |-> r.name, city |-> r.city,
     state |-> r.state, aircraft_type |-> r.aircraft_type,
     owner_type |-> r.owner_type]

\* The INSERT processes the selected rows one by one and stops at the
\* first constraint violation.
RECURSIVE InsertRows(_, _)
InsertRows(table, new) ==
    IF new = <<>> THEN [rows |-> table, ok |-> TRUE]
    ELSE IF UniqueConflict(table, Head(new).icao24)
         THEN [rows |-> table, ok |-> FALSE]
         ELSE InsertRows(Append(table, WithId(Head(new), table)), Tail(new))

\* Conflict handling that keeps the rows inserted before the violation.
OnConflictFail(before, partial) == partial

\* Conflict handling ABORT (the default): the statement's changes are
\* undone.
OnConflictAbort(before, partial) == before

\* INSERT INTO aircraft ... SELECT ... FROM aircraft_data_backup WHERE ...,
\* then conn.commit().  The INSERT opens an implicit transaction.
MigrateData ==
    /\ Begin("migrate")
    /\ UNCHANGED <<source, backupExists, backup, aircraftExists,
                   triggerExists, indexes, conn, closeCount, raised, count, hist>>
    /\ \/ \* the statement fails in the engine before any row is written
          /\ Raise("migrate", "io")
          /\ UNCHANGED <<aircraft, inTxn>>
       \/ \* a relation the statement names does not exist
          /\ ~(backupExists /\ aircraftExists)
          /\ Raise("migrate", "no_such_table")
          /\ UNCHANGED <<aircraft, inTxn>>
       \/ /\ backupExists /\ aircraftExists
          /\ LET res == InsertRows(aircraft, SelectRows(backup)) IN
             IF inTxn
             THEN \* the write lock is held by another connection
                  /\ Raise("migrate", "locked")
                  /\ UNCHANGED <<aircraft, inTxn>>
             ELSE IF ~res.ok
             THEN \* IntegrityError: UNIQUE constraint failed
                  /\ aircraft' = OnConflictAbort(aircraft, res.rows)
                  /\ inTxn' = TRUE
                  /\ Raise("migrate", "unique")
             ELSE /\ aircraft' = res.rows
                  /\ \/ \* conn.commit() succeeds
                        /\ inTxn' = FALSE
                        /\ Proceed("migrate")
                     \/ \* conn.commit() raises
                        /\ inTxn' = TRUE
                        /\ Raise("migrate", "io")

\* A script of five CREATE INDEX IF NOT EXISTS statements, each committed
\* as it runs: when statement k fails, the indexes of statements 1..k-1
\* stay.  The file holds no object but the modelled relations, so no index
\* name is taken by something else.
CreateIndexes ==
    /\ Begin("index")
    /\ UNCHANGED <<source, backupExists, backup, aircraftExists, aircraft,
                   triggerExists, inTxn, conn, closeCount, raised, count, hist>>
    /\ \/ \* statement k fails in the engine
          /\ aircraftExists /\ ~inTxn
          /\ \E k \in 1..Len(IndexScript) :
                indexes' = indexes \cup {IndexScript[j] : j \in 1..(k - 1)}
          /\ Raise("index", "io")
       \/ IF ~aircraftExists
          THEN /\ Raise("index", "no_such_table")
               /\ UNCHANGED indexes
          ELSE IF inTxn
          THEN /\ Raise("index", "locked")
               /\ UNCHANGED indexes
          ELSE /\ Proceed("index")
               /\ indexes' = indexes \cup IndexNames

\* ANALYZE; VACUUM: no row of any relation changes.
OptimizeDatabase ==
    /\ Begin("optimize")
    /\ UNCHANGED <<db, conn, closeCount, raised, count, hist>>
    /\ \/ Raise("optimize", "io")
       \/ IF inTxn THEN Raise("optimize", "locked") ELSE Proceed("optimize")

\* A check that never raises.
VerifyNeverFails(new_count) == FALSE

\* if new_count == 0: raise Exception(...)
VerifyFails(new_count) == new_count = 0

\* Both counts are read; only new_count is tested.
VerifyMigration ==
    /\ Begin("verify")
    /\ UNCHANGED <<db, conn, closeCount, raised, count, hist>>
    /\ \/ Raise("verify", "io")
       \/ IF ~(aircraftExists /\ backupExists)
          THEN Raise("verify", "no_such_table")
          ELSE LET new_count == Len(aircraft)
                   old_count == Len(backup)
               IN IF VerifyFails(new_count)
                  THEN Raise("verify", "empty")
                  ELSE Proceed("verify")

\* ------------------------------------------------ __exit__ and return
\* conn.close() rolls the open transaction back when no statement of the
\* connection is in progress: that is the case after conn.commit() raised,
\* the INSERT having completed.  After the INSERT itself raised, self.cursor
\* still holds the failed statement, and the engine keeps the transaction
\* and its write lock until the cursor is released; a transaction left by
\* an earlier run is not this connection's to end.
CloseEndsTxn == inTxn /\ failedStep = "migrate" /\ error = "io"

\* Leaving the with-block: __exit__ closes the connection if there is one.
\* __exit__ returns None, so a pending exception goes on to main(), which
\* logs and re-raises it.
Exit ==
    /\ pc = "exit"
    /\ pc' = "returned"
    /\ IF conn # "none"
       THEN /\ conn' = "closed"
            /\ closeCount' = closeCount + 1
            /\ aircraft' = IF CloseEndsTxn THEN <<>> ELSE aircraft
            /\ inTxn' = (inTxn /\ ~CloseEndsTxn)
       ELSE UNCHANGED <<conn, closeCount, aircraft, inTxn>>
    /\ raised' = (error # "none")
    /\ UNCHANGED <<source, backupExists, backup, aircraftExists,
                   triggerExists, indexes, started, error, failedStep, count,
                   hist>>

\* ----------------------------------------------------------- environment
\* The script is started again on the same file: a new DatabaseCleaner.
\* A transaction left by a failed INSERT ends (rolled back) when the caller
\* of main() lets go of the exception or the process ends; it is still
\* there when the caller calls main() again while holding the exception.
Restart ==
    /\ pc = "returned"
    /\ runs < MaxRuns
    /\ pc' = "idle"
    /\ conn' = "none"
    /\ closeCount' = 0
    /\ started' = <<>>
    /\ error' = "none"
    /\ failedStep' = "none"
    /\ raised' = FALSE
    /\ prevOk' = (error = "none")
    /\ interfered' = FALSE
    /\ UNCHANGED <<source, backupExists, backup, aircraftExists,
                   triggerExists, indexes, count, runs, hadBackup, fresh>>
    /\ \/ /\ inTxn' = FALSE
          /\ aircraft' = IF inTxn THEN <<>> ELSE aircraft
       \/ /\ inTxn
          /\ UNCHANGED <<inTxn, aircraft>>

\* The owner of the file replaces the rows of aircraft_data.  A writer
\* needs the write lock, which the run holds only inside a statement and
\* which a failed INSERT keeps.  Before the first run Init already draws
\* the content; after the last one a rewrite is not observed.
EnvWriteSource ==
    /\ ~inTxn
    /\ pc \in {"idle", "returned"} => (runs >= 1 /\ runs < MaxRuns)
    /\ \E rows \in SeqsUpTo(EnvRowPool, MaxEnvRows) :
          /\ rows # source
          /\ source' = rows
    /\ interfered' = (pc # "idle")
    /\ UNCHANGED <<backupExists, backup, aircraftExists, aircraft,
                   triggerExists, indexes, inTxn, run, runs, prevOk,
                   hadBackup, fresh>>

Next ==
    \/ Connect
    \/ BackupExistingData
    \/ BackupCopy
    \/ DropExistingTables
    \/ CreateNewTable
    \/ MigrateData
    \/ CreateIndexes
    \/ OptimizeDatabase
    \/ VerifyMigration
    \/ Exit
    \/ Restart
    \/ EnvWriteSource

Spec == Init /\ [][Next]_vars

TypeOK ==
    /\ pc \in {"idle", "backup_copy", "exit", "returned"}
             \cup {StepOrder[i] : i \in 1..Len(StepOrder)}
    /\ count \in 0..(MaxRows + MaxEnvRows)
    /\ count > 0 <=> pc = "backup_copy"
    /\ conn \in {"none", "open", "closed"}
    /\ closeCount \in 0..1
    /\ runs \in 0..MaxRuns

\* ======================================================================
\* Properties.  The expected values below are computed from the rows by
\* index arithmetic, independently of the operators of the model.
\* ======================================================================
Spaces == {SP}
Whitespace == {SP, TAB}

\* s without the characters of ws at its two ends.
StripSeq(s, ws) ==
    LET keep == {i \in 1..Len(s) : s[i] \notin ws} IN
    IF keep = {} THEN <<>>
    ELSE SubSeq(s, CHOOSE i \in keep : \A j \in keep : i <= j,
                   CHOOSE i \in keep : \A j \in keep : j <= i)

StripVal(v, ws) == IF v.null THEN v ELSE [null |-> FALSE, s |-> StripSeq(v.s, ws)]

\* The row has a manufacturer that is not NULL and not empty once stripped.
Keeps(r, ws) == ~r.manufacturer.null /\ StripSeq(r.manufacturer.s, ws) # <<>>

Kept(rows, ws) == SelectSeq(rows, LAMBDA r : Keeps(r, ws))

Count(rows, ws) == Len(Kept(rows, ws))

\* No two kept rows have the same non-NULL icao24 once stripped.
UniqueIcao(rows, ws) ==
    LET k == Kept(rows, ws) IN
    \A i, j \in 1..Len(k) :
        (i < j /\ ~k[i].icao24.null)
            => StripVal(k[i].icao24, ws) # StripVal(k[j].icao24, ws)

\* Target row i agrees, field by field, with source row r stripped of ws.
FieldsMatch(t, r, ws) ==
    /\ t.icao24 = StripVal(r.icao24, ws)
    /\ t.n_number = StripVal(r.n_number, ws)
    /\ t.manufacturer = StripVal(r.manufacturer, ws)
    /\ t.model = StripVal(r.model, ws)
    /\ t.operator = StripVal(r.operator, ws)
    /\ t.name = StripVal(r.name, ws)
    /\ t.city = StripVal(r.city, ws)
    /\ t.state = StripVal(r.state, ws)
    /\ t.aircraft_type = StripVal(r.type_aircraft, ws)
    /\ t.owner_type = StripVal(r.type_registrant, ws)

\* The target holds one row per kept row of rows, in order, ids from 1.
DerivedFrom(target, rows) ==
    LET k == Kept(rows, Spaces) IN
    /\ Len(target) = Len(k)
    /\ \A i \in 1..Len(k) :
          target[i].id = i /\ FieldsMatch(target[i], k[i], Spaces)

SpecOrder == <<"backup", "drop", "create", "migrate", "index", "optimize",
               "verify">>

SpecSteps == {SpecOrder[i] : i \in 1..Len(SpecOrder)}

\* C1: whenever main() has returned and the connection had been opened,
\* the connection was closed exactly once.  (Violated: when the PRAGMA
\* script raises inside connect(), __exit__ is never called.)
C1_ClosedExactlyOnce ==
    (pc = "returned" /\ conn # "none") => closeCount = 1

\* C2 as stated: a run on a fresh database whose source has at least one
\* row with a manufacturer that is non-empty after trimming whitespace
\* completes with as many target rows as there are such rows.  (Read for
\* runs during which nobody else writes aircraft_data.)
C2_Original ==
    (pc = "returned" /\ fresh /\ error # "io" /\ ~interfered
        /\ Count(source, Whitespace) >= 1)
    => (error = "none" /\ Len(aircraft) = Count(source, Whitespace))

\* C2 amended: on a fresh database whose source has at least one row with
\* a manufacturer that is not NULL and not empty once its leading and
\* trailing spaces are removed, a run without engine fault, during which
\* nobody else writes aircraft_data, completes with exactly as many target
\* rows as there are such rows, provided no two of them share a non-NULL
\* icao24 after trimming; if two do, migrate_data raises the uniqueness
\* violation and the target is left empty.
C2_FreshRunCount ==
    (pc = "returned" /\ fresh /\ error # "io" /\ ~interfered
        /\ Count(source, Spaces) >= 1)
    => IF UniqueIcao(source, Spaces)
       THEN /\ error = "none"
            /\ ~raised
            /\ Len(aircraft) = Count(source, Spaces)
            /\ Len(aircraft) = Count(backup, Spaces)
       ELSE /\ error = "unique"
            /\ failedStep = "migrate"
            /\ raised
            /\ aircraft = <<>>

C2_Witness ==
    /\ pc = "returned" /\ fresh /\ error = "none" /\ ~interfered
    /\ Len(source) = 2 /\ Len(aircraft) = 1

\* C3 as stated: a run whose source has no row, or only rows with a NULL,
\* empty or whitespace-only manufacturer, ends with verify_migration
\* raising, whether or not a backup exists already.  (Read for runs during
\* which nobody else writes aircraft_data.)
C3_Original ==
    (pc = "returned" /\ error # "io" /\ ~interfered
        /\ Count(source, Whitespace) = 0)
    => (failedStep = "verify" /\ error = "empty" /\ raised)

\* C3 amended: in a run without engine fault, during which nobody else
\* writes aircraft_data, and whose source has no row with a manufacturer
\* other than NULL, empty or spaces only: if no backup
\* existed and the source has at least one row, verify_migration raises
\* because the target is empty; if no backup existed and the source has
\* no row, migrate_data raises (no such table) before verification; if a
\* backup existed, verify_migration raises exactly when no backup row
\* passes the filter, whatever the source holds.
C3_BlankSourceOutcome ==
    (pc = "returned" /\ error # "io" /\ ~interfered
        /\ Count(source, Spaces) = 0)
    => IF ~hadBackup
       THEN IF source = <<>>
            THEN failedStep = "migrate" /\ error = "no_such_table" /\ raised
            ELSE /\ failedStep = "verify" /\ error = "empty" /\ raised
                 /\ aircraftExists /\ aircraft = <<>>
       ELSE (failedStep = "verify" /\ error = "empty" /\ raised)
                <=> Count(backup, Spaces) = 0

C3_Witness ==
    /\ pc = "returned" /\ ~hadBackup /\ ~interfered /\ source # <<>>
    /\ Count(source, Spaces) = 0
    /\ failedStep = "verify" /\ error = "empty" /\ raised

\* C4: when the previous run on the file succeeded, a further run without
\* engine fault succeeds too, and the target then holds exactly the rows
\* derived from the backup, one per qualifying backup row, not the rows
\* of both runs.
C4_SecondRun ==
    (pc = "returned" /\ prevOk /\ error # "io")
    => /\ error = "none"
       /\ ~raised
       /\ aircraftExists /\ backupExists
       /\ DerivedFrom(aircraft, backup)

C4_Witness ==
    /\ pc = "returned" /\ prevOk /\ error = "none" /\ runs = 2
    /\ Len(aircraft) >= 1
    /\ source # backup

\* C5: either statement of a backup step that runs when the backup
\* relation exists leaves the backup relation and its rows as they are.
C5_BackupIdempotent ==
    [][(pc \in {"backup", "backup_copy"} /\ backupExists)
          => (backupExists' /\ backup' = backup)]_vars

C5_Witness ==
    /\ pc = "drop" /\ hadBackup /\ backupExists
    /\ source # <<>> /\ source # backup

\* C6: the steps entered in a run are an initial segment of the fixed
\* order; the step about to run is the successor of the last one entered;
\* a step that raised is the last one entered; a run that returned
\* without error entered all seven; and an error is re-raised by main().
C6_StepOrder ==
    LET n == Len(started) IN
    /\ n <= Len(SpecOrder)
    /\ started = SubSeq(SpecOrder, 1, n)
    /\ pc \in SpecSteps => (n < Len(SpecOrder) /\ pc = SpecOrder[n + 1])
    /\ pc = "backup_copy" => started = <<"backup">>
    /\ failedStep \in SpecSteps
          => (n >= 1 /\ started[n] = failedStep /\ pc \in {"exit", "returned"})
    /\ pc = "returned"
          => /\ raised <=> (error # "none")
             /\ error = "none" => started = SpecOrder

C6_Witness ==
    /\ pc = "returned" /\ raised /\ failedStep = "create"
    /\ started = <<"backup", "drop", "create">>

\* C7: no step of a run (a step that moves the run's position) changes
\* the rows of aircraft_data, and once the backup relation exists no step
\* at all drops it or changes its rows.
C7_Frame ==
    [][/\ pc' # pc => source' = source
       /\ backupExists => (backupExists' /\ backup' = backup)]_vars

C7_Witness ==
    /\ pc = "returned" /\ hadBackup /\ started = SpecOrder
    /\ source # <<>> /\ aircraft # <<>>

\* C8 as stated: once the target exists, non-NULL icao24 values are
\* pairwise distinct and every manufacturer is non-empty and equal to
\* itself with leading and trailing whitespace removed.
C8_Original ==
    aircraftExists =>
        /\ \A i, j \in 1..Len(aircraft) :
              (i < j /\ ~aircraft[i].icao24.null)
                  => aircraft[i].icao24 # aircraft[j].icao24
        /\ \A i \in 1..Len(aircraft) :
              /\ ~aircraft[i].manufacturer.null
              /\ aircraft[i].manufacturer.s # <<>>
              /\ aircraft[i].manufacturer
                    = StripVal(aircraft[i].manufacturer, Whitespace)

\* C8 amended: once the target exists, non-NULL icao24 values are
\* pairwise distinct and every manufacturer is non-NULL, non-empty and
\* equal to itself with leading and trailing spaces removed (other
\* whitespace, such as a tab, is kept).
C8_TargetInvariant ==
    aircraftExists =>
        /\ \A i, j \in 1..Len(aircraft) :
              (i < j /\ ~aircraft[i].icao24.null)
                  => aircraft[i].icao24 # aircraft[j].icao24
        /\ \A i \in 1..Len(aircraft) :
              /\ ~aircraft[i].manufacturer.null
              /\ aircraft[i].manufacturer.s # <<>>
              /\ aircraft[i].manufacturer
                    = StripVal(aircraft[i].manufacturer, Spaces)

C8_Witness ==
    /\ aircraftExists /\ pc = "returned" /\ Len(aircraft) = 2
    /\ aircraft[1].icao24.null /\ aircraft[2].icao24.null

\* C9 as stated: every textual field of a migrated row is the source value
\* with leading and trailing whitespace removed.
C9_Original ==
    aircraft # <<>> =>
        LET k == Kept(backup, Spaces) IN
        /\ Len(aircraft) = Len(k)
        /\ \A i \in 1..Len(k) : FieldsMatch(aircraft[i], k[i], Whitespace)

\* C9 amended: every textual field of a migrated row is the value of the
\* backup row it comes from with leading and trailing space characters
\* removed; characters inside the value, and whitespace other than spaces
\* at its ends, are kept; aircraft_type comes from TYPE AIRCRAFT and
\* owner_type from TYPE REGISTRANT.
C9_TrimmedFields ==
    aircraft # <<>> =>
        LET k == Kept(backup, Spaces) IN
        /\ Len(aircraft) = Len(k)
        /\ \A i \in 1..Len(k) : FieldsMatch(aircraft[i], k[i], Spaces)

C9_Witness ==
    /\ pc = "returned" /\ error = "none"
    /\ Len(aircraft) >= 1
    /\ backup[1].icao24 = [null |-> FALSE, s |-> <<SP, "A", "1", SP>>]
    /\ aircraft[1].icao24 = [null |-> FALSE, s |-> <<"A", "1">>]
    /\ aircraft[1].aircraft_type = [null |-> FALSE, s |-> <<"F", SP, "w">>]

\* C10: the target never holds a non-empty strict subset of the rows to
\* migrate: it is empty, or it has one row for every backup row that
\* passes the filter.
C10_AllOrNothing ==
    \/ aircraft = <<>>
    \/ /\ aircraftExists /\ backupExists
       /\ Len(aircraft) = Count(backup, Spaces)
       /\ \A i \in 1..Len(aircraft) : aircraft[i].id = i

C10_Witness ==
    /\ pc = "exit" /\ failedStep = "migrate" /\ error = "unique"
    /\ inTxn /\ aircraftExists /\ aircraft = <<>>
    /\ Count(backup, Spaces) >= 2

====
